---- MODULE Spec2Model ----
(***************************************************************************)
(* State-machine model of the TuneX Flask application (src/main.py):       *)
(* session-based role authorization, songs and play counts, playlists and  *)
(* playlist memberships with positions.  One action per route handler;     *)
(* each sequential action is a whole request, run to completion and        *)
(* committed.  SpecRace splits add_song_to_playlist into its three         *)
(* database steps to study two interleaved requests.                       *)
(*                                                                         *)
(* Not stored: Song.file_path, Song.duration and Song.genre_id (written    *)
(* once by creator_upload, read by no handler), flashed messages and       *)
(* rendered templates.                                                     *)
(***************************************************************************)
EXTENDS Integers, Sequences, FiniteSets, Bags, TLC

VARIABLES users, songs, playlists, playlist_songs, session, resp, inflight

db == <<users, songs, playlists, playlist_songs>>
vars == <<users, songs, playlists, playlist_songs, session, resp, inflight>>

(* ---------------------------- bounds ----------------------------------- *)
(* Spec, the whole application: ids 1..CoreSongs and 1..CorePlaylists.     *)
(* SpecCatalog, SpecLibrary and SpecRace: ids 1..MaxSongs, 1..MaxPlaylists. *)
CoreSongs == 1
CorePlaylists == 1
MaxSongs == 2
MaxPlaylists == 2
MaxPlays == 2
MaxPos == 2
MaxOrderLen == 2

(* ---------------------------- inputs ----------------------------------- *)
Roles == {"ADMIN", "CREATOR", "USER"}
AdminEmail == "admin@tunex.com"
FormEmails == {AdminEmail, "a@x", "b@x", ""}
FormRoles == Roles \cup {"GUEST", ""}
MemberEmails == {"a@x", "b@x"}
MemberRoles == {"CREATOR", "USER"}
RegisterPasswords == {"pw"}
LoginPasswords == {"pw", "admin123"}
Usernames == {"u"}
Titles == {"t1", "t2"}
PlaylistNames == { <<" ", "G", " ">> }
Filenames == { <<"a", ".", "m", "p", "3">>, <<"a", ".", "W", "A", "V">>,
               <<"a", ".", "t", "x", "t">>, <<"m", "p", "3">> }
SongIds == 1..MaxSongs
PlaylistIds == 1..MaxPlaylists
CoreSongIds == 1..CoreSongs
CorePlaylistIds == 1..CorePlaylists
Missing == 0
OrderPositions == {0, MaxPos}
Procs == {1, 2}

RECURSIVE SeqsUpTo(_, _)
SeqsUpTo(S, n) ==
    IF n = 0 THEN { <<>> }
    ELSE LET shorter == SeqsUpTo(S, n - 1)
         IN  shorter \cup { Append(q, x) : q \in shorter, x \in S }

Orders(S) == SeqsUpTo([song_id : S, position : OrderPositions], MaxOrderLen)

(* ---------------------------- helpers ---------------------------------- *)
ALLOWED_EXTENSIONS == { <<"m", "p", "3">>, <<"w", "a", "v">> }

Lower(c) ==
    CASE c = "W" -> "w"
      [] c = "A" -> "a"
      [] c = "V" -> "v"
      [] c = "M" -> "m"
      [] c = "P" -> "p"
      [] OTHER -> c

LastDot(f) ==
    LET dots == { i \in 1..Len(f) : f[i] = "." }
    IN  IF dots = {} THEN 0 ELSE CHOOSE i \in dots : \A j \in dots : j <= i

allowed_file(filename) ==
    LET d == LastDot(filename)
        ext == [i \in 1..(Len(filename) - d) |-> Lower(filename[d + i])]
    IN  d # 0 /\ ext \in ALLOWED_EXTENSIONS

IsSpace(c) == c = " "

RECURSIVE LStrip(_)
LStrip(s) == IF s # <<>> /\ IsSpace(Head(s)) THEN LStrip(Tail(s)) ELSE s

RECURSIVE RStrip(_)
RStrip(s) ==
    IF s # <<>> /\ IsSpace(s[Len(s)]) THEN RStrip(SubSeq(s, 1, Len(s) - 1)) ELSE s

Strip(s) == RStrip(LStrip(s))

generate_password_hash(password) == <<"hash", password>>
check_password_hash(pwhash, password) == pwhash = generate_password_hash(password)

SetMax(S) == CHOOSE m \in S : \A x \in S : x <= m

(* Primary keys are handed out as max(id) + 1. *)
NextId(used) == IF used = {} THEN 1 ELSE SetMax(used) + 1

(* Whether the database rejects a row whose song_id names no song. *)
ForeignKeyModes == BOOLEAN

NoSession == [user_id |-> 0, username |-> "", role |-> ""]

AdminUser ==
    [username |-> "TUNEX_ADMIN", email |-> AdminEmail,
     password_hash |-> generate_password_hash("admin123"), roles |-> {"ADMIN"}]

IdleRequest ==
    [pc |-> "idle", playlist_id |-> 0, song_id |-> 0, last_position |-> <<>>]

Rows == BagToSet(playlist_songs)

Without(bag, gone) == [r \in (BagToSet(bag) \ gone) |-> bag[r]]

(* A handler run as one step answers its request; the requests in flight  *)
(* are other requests.                                                    *)
Reply(route, status) ==
    /\ resp' = [route |-> route, status |-> status]
    /\ UNCHANGED inflight

RedirectLogin == "302:/login"

(* ---------------------------- initial state ---------------------------- *)
Init ==
    /\ users = <<AdminUser>>
    /\ songs = <<>>
    /\ playlists = <<>>
    /\ playlist_songs = EmptyBag
    /\ session = NoSession
    /\ resp = [route |-> "", status |-> ""]
    /\ inflight = [p \in Procs |-> IdleRequest]

(* ---------------------------- auth ------------------------------------- *)
UserByEmail(email) == { i \in 1..Len(users) : users[i].email = email }

Index ==
    /\ Reply("index", "200")
    /\ UNCHANGED <<db, session>>

RoleHeld_Any(user_id, role) == TRUE

RoleHeld(user_id, role) == role \in users[user_id].roles

Login(method, email, password, role) ==
    /\ UNCHANGED db
    /\ IF method = "POST"
       THEN IF /\ UserByEmail(email) # {}
               /\ check_password_hash(
                      users[CHOOSE i \in UserByEmail(email) : TRUE].password_hash,
                      password)
            THEN LET uid == CHOOSE i \in UserByEmail(email) : TRUE
                 IN  IF ~RoleHeld(uid, role)
                     THEN /\ Reply("login", "302:/login?role:Unauthorized role selected")
                          /\ UNCHANGED session
                     ELSE /\ session' = [user_id |-> uid,
                                         username |-> users[uid].username,
                                         role |-> role]
                          /\ Reply("login",
                                   CASE role = "CREATOR" -> "302:/dashboard/creator"
                                     [] role = "USER" -> "302:/dashboard/user"
                                     [] OTHER -> "200")
            ELSE /\ Reply("login", "302:/login?role:Invalid email or password")
                 /\ UNCHANGED session
       ELSE /\ Reply("login", "200")
            /\ UNCHANGED session

Register(method, email, username, password, role_name) ==
    /\ UNCHANGED <<songs, playlists, playlist_songs, session>>
    /\ IF method = "POST"
       THEN IF email = "" \/ username = "" \/ password = "" \/ role_name = ""
            THEN Reply("register", "400:Missing fields") /\ UNCHANGED users
            ELSE IF UserByEmail(email) # {}
            THEN Reply("register", "200:Email already exists") /\ UNCHANGED users
            ELSE IF role_name \notin Roles
            THEN Reply("register", "200:Invalid role") /\ UNCHANGED users
            ELSE /\ users' = Append(users,
                        [username |-> username, email |-> email,
                         password_hash |-> generate_password_hash(password),
                         roles |-> {role_name}])
                 /\ Reply("register", "302:/login?role")
       ELSE Reply("register", "200") /\ UNCHANGED users

Logout ==
    /\ session' = NoSession
    /\ Reply("logout", "302:/")
    /\ UNCHANGED db

WrongRole_AnonymousOnly(required) == session.role = ""

(* The role gate every gated handler opens with. *)
WrongRole(required) == session.role # required

NotOwner_Never(owner_id) == FALSE

(* The ownership test of the song and playlist handlers. *)
NotOwner(owner_id) == owner_id # session.user_id

(* ---------------------------- creator ---------------------------------- *)
CreatorDashboard ==
    /\ UNCHANGED <<db, session>>
    /\ IF WrongRole("CREATOR")
       THEN Reply("creator_dashboard", RedirectLogin)
       ELSE Reply("creator_dashboard", "200")

CountsPlay_AnyLogin == session.user_id # 0

(* Only a logged-in session whose active role is USER counts a play. *)
CountsPlay == session.user_id # 0 /\ session.role = "USER"

IncrementPlay(song_id) ==
    /\ UNCHANGED <<users, playlists, playlist_songs, session>>
    /\ IF song_id \notin DOMAIN songs
       THEN Reply("increment_play", "404") /\ UNCHANGED songs
       ELSE /\ IF CountsPlay
               THEN /\ songs[song_id].play_count < MaxPlays
                    /\ songs' = [songs EXCEPT ![song_id].play_count = @ + 1]
               ELSE UNCHANGED songs
            /\ Reply("increment_play", "204")

(* parsed: whether mutagen reads the saved file with the parser chosen. *)
(* id: the primary key the database hands to the new row.              *)
CreatorUpload(filename, title, parsed, id) ==
    /\ UNCHANGED <<users, playlists, playlist_songs, session>>
    /\ IF WrongRole("CREATOR")
       THEN Reply("creator_upload", RedirectLogin) /\ UNCHANGED songs
       ELSE IF ~allowed_file(filename)
       THEN Reply("creator_upload", "200:Invalid file") /\ UNCHANGED songs
       ELSE IF ~parsed
       THEN Reply("creator_upload", "500") /\ UNCHANGED songs
       ELSE     /\ id = NextId(DOMAIN songs)
                /\ songs' = [i \in DOMAIN songs \cup {id} |->
                                IF i = id
                                THEN [title |-> title,
                                      creator_id |-> session.user_id,
                                      play_count |-> 0]
                                ELSE songs[i]]
                /\ Reply("creator_upload", "302:/dashboard/creator")

EditSong(song_id, title) ==
    /\ UNCHANGED <<users, playlists, playlist_songs, session>>
    /\ IF WrongRole("CREATOR")
       THEN Reply("edit_song", RedirectLogin) /\ UNCHANGED songs
       ELSE IF song_id \notin DOMAIN songs
       THEN Reply("edit_song", "404") /\ UNCHANGED songs
       ELSE IF NotOwner(songs[song_id].creator_id)
       THEN Reply("edit_song", "403:Unauthorized") /\ UNCHANGED songs
       ELSE /\ songs' = [songs EXCEPT ![song_id].title = title]
            /\ Reply("edit_song", "302:/dashboard/creator")

SongMemberships_WrongColumn(song_id) == { r \in Rows : r.playlist_id = song_id }

(* PlaylistSong.query.filter_by(song_id=song_id) *)
SongMemberships(song_id) == { r \in Rows : r.song_id = song_id }

DeleteSong(song_id) ==
    /\ UNCHANGED <<users, playlists, session>>
    /\ IF WrongRole("CREATOR")
       THEN Reply("delete_song", RedirectLogin) /\ UNCHANGED <<songs, playlist_songs>>
       ELSE IF song_id \notin DOMAIN songs
       THEN Reply("delete_song", "404") /\ UNCHANGED <<songs, playlist_songs>>
       ELSE IF NotOwner(songs[song_id].creator_id)
       THEN Reply("delete_song", "403:Unauthorized")
            /\ UNCHANGED <<songs, playlist_songs>>
       ELSE /\ playlist_songs' = Without(playlist_songs, SongMemberships(song_id))
            /\ songs' = [i \in DOMAIN songs \ {song_id} |-> songs[i]]
            /\ Reply("delete_song", "302:/dashboard/creator")

(* ---------------------------- listener --------------------------------- *)
UserDashboard ==
    /\ UNCHANGED <<db, session>>
    /\ IF WrongRole("USER")
       THEN Reply("user_dashboard", RedirectLogin)
       ELSE Reply("user_dashboard", "200")

CreatePlaylist(name, id) ==
    /\ UNCHANGED <<users, songs, playlist_songs, session>>
    /\ IF WrongRole("USER")
       THEN Reply("create_playlist", RedirectLogin) /\ UNCHANGED playlists
       ELSE     /\ id = NextId(DOMAIN playlists)
                /\ playlists' = [i \in DOMAIN playlists \cup {id} |->
                                    IF i = id
                                    THEN [playlist_name |-> name,
                                          user_id |-> session.user_id]
                                    ELSE playlists[i]]
                /\ Reply("create_playlist", "302:/dashboard/user")

(* PlaylistSong.query.filter_by(playlist_id=..., song_id=...) *)
PairRows(playlist_id, song_id) ==
    { r \in Rows : r.playlist_id = playlist_id /\ r.song_id = song_id }

PairExists_Never(playlist_id, song_id) == FALSE

(* The duplicate check of add_song_to_playlist. *)
PairExists(playlist_id, song_id) == PairRows(playlist_id, song_id) # {}

(* func.max(PlaylistSong.position) of one playlist: <<>> is NULL. *)
MaxPosition(playlist_id) ==
    LET ps == { r.position : r \in { x \in Rows : x.playlist_id = playlist_id } }
    IN  IF ps = {} THEN <<>> ELSE <<SetMax(ps)>>

(* (last_position or 0) + 1: NULL and 0 are both falsy. *)
PositionAfter(last_position) ==
    (IF last_position = <<>> \/ last_position = <<0>> THEN 0 ELSE last_position[1]) + 1

NextPosition_Count(playlist_id) ==
    Cardinality({ r \in Rows : r.playlist_id = playlist_id }) + 1

NextPosition(playlist_id) == PositionAfter(MaxPosition(playlist_id))

Membership(playlist_id, song_id, position) ==
    [playlist_id |-> playlist_id, song_id |-> song_id, position |-> position]

(* song_id = Missing: the form field is absent or empty.                   *)
(* fk: whether the database enforces PlaylistSong.song_id as a foreign key *)
AddSongToPlaylist(playlist_id, song_id, fk) ==
    /\ UNCHANGED <<users, songs, playlists, session>>
    /\ IF WrongRole("USER")
       THEN Reply("add_song_to_playlist", RedirectLogin) /\ UNCHANGED playlist_songs
       ELSE IF playlist_id = Missing \/ song_id = Missing
       THEN Reply("add_song_to_playlist", "302:back") /\ UNCHANGED playlist_songs
       ELSE IF playlist_id \notin DOMAIN playlists
       THEN Reply("add_song_to_playlist", "404") /\ UNCHANGED playlist_songs
       ELSE IF NotOwner(playlists[playlist_id].user_id)
       THEN Reply("add_song_to_playlist", "403:Unauthorized")
            /\ UNCHANGED playlist_songs
       ELSE IF PairExists(playlist_id, song_id)
       THEN Reply("add_song_to_playlist", "302:back") /\ UNCHANGED playlist_songs
       ELSE IF fk /\ song_id \notin DOMAIN songs
       THEN Reply("add_song_to_playlist", "500") /\ UNCHANGED playlist_songs
       ELSE /\ NextPosition(playlist_id) <= MaxPos
            /\ playlist_songs' = playlist_songs (+)
                   SetToBag({Membership(playlist_id, song_id, NextPosition(playlist_id))})
            /\ Reply("add_song_to_playlist", "302:back")

ViewPlaylist(playlist_id) ==
    /\ UNCHANGED <<db, session>>
    /\ IF playlist_id \notin DOMAIN playlists
       THEN Reply("view_playlist", "404")
       ELSE IF session.user_id = 0
       THEN Reply("view_playlist", "500")
       ELSE IF NotOwner(playlists[playlist_id].user_id)
       THEN Reply("view_playlist", "403:Unauthorized")
       ELSE Reply("view_playlist", "200")

RenamePlaylist(playlist_id, name) ==
    /\ UNCHANGED <<users, songs, playlist_songs, session>>
    /\ IF WrongRole("USER")
       THEN Reply("rename_playlist", RedirectLogin) /\ UNCHANGED playlists
       ELSE IF playlist_id \notin DOMAIN playlists
       THEN Reply("rename_playlist", "404") /\ UNCHANGED playlists
       ELSE IF NotOwner(playlists[playlist_id].user_id)
       THEN Reply("rename_playlist", "403:Unauthorized") /\ UNCHANGED playlists
       ELSE /\ playlists' = [playlists EXCEPT ![playlist_id].playlist_name = Strip(name)]
            /\ Reply("rename_playlist", "302:/dashboard/user")

(* PlaylistSong.query.filter_by(playlist_id=playlist_id) *)
PlaylistMemberships(playlist_id) == { r \in Rows : r.playlist_id = playlist_id }

DeletePlaylist(playlist_id) ==
    /\ UNCHANGED <<users, songs, session>>
    /\ IF WrongRole("USER")
       THEN Reply("delete_playlist", RedirectLogin)
            /\ UNCHANGED <<playlists, playlist_songs>>
       ELSE IF playlist_id \notin DOMAIN playlists
       THEN Reply("delete_playlist", "404") /\ UNCHANGED <<playlists, playlist_songs>>
       ELSE IF NotOwner(playlists[playlist_id].user_id)
       THEN Reply("delete_playlist", "403:Unauthorized")
            /\ UNCHANGED <<playlists, playlist_songs>>
       ELSE /\ playlist_songs' =
                   Without(playlist_songs, PlaylistMemberships(playlist_id))
            /\ playlists' = [i \in DOMAIN playlists \ {playlist_id} |-> playlists[i]]
            /\ Reply("delete_playlist", "302:/dashboard/user")

(* song_id = Missing: request.form['song_id'] raises a 400 Bad Request. *)
RemoveFromPlaylist(playlist_id, song_id) ==
    /\ UNCHANGED <<users, songs, playlists, session>>
    /\ IF WrongRole("USER")
       THEN Reply("remove_from_playlist", RedirectLogin) /\ UNCHANGED playlist_songs
       ELSE IF playlist_id = Missing \/ song_id = Missing
       THEN Reply("remove_from_playlist", "400") /\ UNCHANGED playlist_songs
       ELSE IF playlist_id \notin DOMAIN playlists
       THEN Reply("remove_from_playlist", "404") /\ UNCHANGED playlist_songs
       ELSE IF NotOwner(playlists[playlist_id].user_id)
       THEN Reply("remove_from_playlist", "403:Unauthorized")
            /\ UNCHANGED playlist_songs
       ELSE /\ playlist_songs' = Without(playlist_songs, PairRows(playlist_id, song_id))
            /\ Reply("remove_from_playlist", "302:back")

MatchingRows_AnyPlaylist(bag, playlist_id, song_id) ==
    { r \in BagToSet(bag) : r.song_id = song_id }

(* The rows one item of the order list may select: .first() of the match. *)
MatchingRows(bag, playlist_id, song_id) ==
    { r \in BagToSet(bag) : r.playlist_id = playlist_id /\ r.song_id = song_id }

(* One pass of the loop body: every table the item can leave behind. *)
ReorderItem(bag, playlist_id, item) ==
    LET found == MatchingRows(bag, playlist_id, item.song_id)
    IN  IF found = {} THEN {bag}
        ELSE { (bag (-) SetToBag({ps})) (+)
                   SetToBag({[ps EXCEPT !.position = item.position]}) : ps \in found }

RECURSIVE ReorderOutcomes(_, _, _)
ReorderOutcomes(bag, playlist_id, order) ==
    IF order = <<>> THEN {bag}
    ELSE UNION { ReorderOutcomes(b, playlist_id, Tail(order)) :
                   b \in ReorderItem(bag, playlist_id, Head(order)) }

(* The answer of reorder_playlist: 204 once the loop has run. *)
ReorderStatus(playlist_id) ==
    IF WrongRole("USER") THEN "403:"
    ELSE IF playlist_id \notin DOMAIN playlists THEN "404"
    ELSE IF NotOwner(playlists[playlist_id].user_id) THEN "403:"
    ELSE "204"

(* Every table reorder_playlist may commit for this request. *)
ReorderTables(playlist_id, order) ==
    IF ReorderStatus(playlist_id) = "204"
    THEN ReorderOutcomes(playlist_songs, playlist_id, order)
    ELSE {playlist_songs}

ReorderPlaylist(playlist_id, order) ==
    /\ UNCHANGED <<users, songs, playlists, session>>
    /\ playlist_songs' \in ReorderTables(playlist_id, order)
    /\ Reply("reorder_playlist", ReorderStatus(playlist_id))

(* ---------------------------- specification ---------------------------- *)
(* E: the e-mail addresses typed into the forms; R: the roles asked for. *)
AuthRequests(E, R) ==
    \/ \E e \in E, p \in LoginPasswords, r \in Roles : Login("POST", e, p, r)
    \/ \E e \in E, u \in Usernames, p \in RegisterPasswords, r \in R :
           Register("POST", e, u, p, r)
    \/ Logout

PageRequests(P) ==
    \/ Index
    \/ Login("GET", "", "", "")
    \/ Register("GET", "", "", "", "")
    \/ CreatorDashboard
    \/ UserDashboard
    \/ \E pl \in P : ViewPlaylist(pl)

SongRequests(S, T) ==
    \/ \E f \in Filenames, t \in T, ok \in BOOLEAN, id \in S : CreatorUpload(f, t, ok, id)
    \/ \E s \in S : DeleteSong(s)

SongAttributeRequests(S, T) ==
    \/ \E s \in S : IncrementPlay(s)
    \/ \E s \in S, t \in T : EditSong(s, t)

PlaylistRequests(P, S, N) ==
    \/ \E n \in N, id \in P : CreatePlaylist(n, id)
    \/ \E pl \in P, s \in S \cup {Missing}, fk \in ForeignKeyModes :
           AddSongToPlaylist(pl, s, fk)
    \/ \E pl \in P : DeletePlaylist(pl)
    \/ \E pl \in P, s \in S \cup {Missing} : RemoveFromPlaylist(pl, s)
    \/ \E pl \in P, o \in Orders(S) : ReorderPlaylist(pl, o)

PlaylistAttributeRequests(P, N) ==
    \E pl \in P, n \in N : RenamePlaylist(pl, n)

(* The whole application. *)
Next ==
    \/ AuthRequests(FormEmails, FormRoles)
    \/ PageRequests(CorePlaylistIds)
    \/ SongRequests(CoreSongIds, Titles)
    \/ SongAttributeRequests(CoreSongIds, Titles)
    \/ PlaylistRequests(CorePlaylistIds, CoreSongIds, PlaylistNames)
    \/ PlaylistAttributeRequests(CorePlaylistIds, PlaylistNames)

Spec == Init /\ [][Next]_vars

(* The song catalogue: every handler that writes songs, and the session. *)
NextCatalog ==
    \/ AuthRequests(MemberEmails, MemberRoles)
    \/ SongRequests(SongIds, Titles)
    \/ SongAttributeRequests(SongIds, Titles)

SpecCatalog == Init /\ [][NextCatalog]_vars

(* Playlists and memberships: every handler that writes playlist_songs or *)
(* something its guards read (session, song ids, playlist ids and owners). *)
NextLibrary ==
    \/ AuthRequests(MemberEmails, MemberRoles)
    \/ SongRequests(SongIds, {"t1"})
    \/ PlaylistRequests(PlaylistIds, SongIds, PlaylistNames)

SpecLibrary == Init /\ [][NextLibrary]_vars

(* ---------------------------- interleaved add -------------------------- *)
(* Two add_song_to_playlist requests in flight, each taking its database   *)
(* steps one at a time: the checks up to the duplicate check, the read of   *)
(* the maximum position, and the insert with its commit.                    *)
AddBegin(p, playlist_id, song_id) ==
    /\ inflight[p].pc = "idle"
    /\ inflight' = [inflight EXCEPT ![p] =
           IF \/ WrongRole("USER")
              \/ playlist_id = Missing \/ song_id = Missing
              \/ playlist_id \notin DOMAIN playlists
              \/ NotOwner(playlists[playlist_id].user_id)
              \/ PairExists(playlist_id, song_id)
           THEN [@ EXCEPT !.pc = "returned"]
           ELSE [@ EXCEPT !.pc = "checked", !.playlist_id = playlist_id,
                          !.song_id = song_id]]
    /\ UNCHANGED <<db, session, resp>>

AddReadMax(p) ==
    /\ inflight[p].pc = "checked"
    /\ inflight' = [inflight EXCEPT ![p].pc = "read",
                       ![p].last_position = MaxPosition(inflight[p].playlist_id)]
    /\ UNCHANGED <<db, session, resp>>

RacePosition_Fresh(p) == NextPosition(inflight[p].playlist_id)

(* next_position, computed from the maximum this request read earlier. *)
RacePosition(p) == PositionAfter(inflight[p].last_position)

AddCommit(p, fk) ==
    /\ inflight[p].pc = "read"
    /\ IF fk /\ inflight[p].song_id \notin DOMAIN songs
       THEN /\ inflight' = [inflight EXCEPT ![p].pc = "failed"]
            /\ UNCHANGED playlist_songs
       ELSE /\ RacePosition(p) <= MaxPos
            /\ playlist_songs' = playlist_songs (+)
                   SetToBag({Membership(inflight[p].playlist_id, inflight[p].song_id,
                                        RacePosition(p))})
            /\ inflight' = [inflight EXCEPT ![p].pc = "committed"]
    /\ UNCHANGED <<users, songs, playlists, session, resp>>

NextRace ==
    \/ AuthRequests(MemberEmails, MemberRoles)
    \/ SongRequests(SongIds, {"t1"})
    \/ \E n \in PlaylistNames, id \in PlaylistIds : CreatePlaylist(n, id)
    \/ \E p \in Procs, pl \in PlaylistIds, s \in SongIds : AddBegin(p, pl, s)
    \/ \E p \in Procs : AddReadMax(p)
    \/ \E p \in Procs, fk \in ForeignKeyModes : AddCommit(p, fk)

SpecRace == Init /\ [][NextRace]_vars

(* ---------------------------- properties ------------------------------- *)
OwnRow(r, pl, s) == r.playlist_id = pl /\ r.song_id = s

SameCopies(r) ==
    /\ r \in BagToSet(playlist_songs')
    /\ playlist_songs'[r] = playlist_songs[r]

NoDuplicateMembership ==
    \A r \in Rows :
        /\ playlist_songs[r] = 1
        /\ \A q \in Rows : OwnRow(q, r.playlist_id, r.song_id) => q = r

AddExistingPairIsNoOp ==
    resp'.route = "add_song_to_playlist" =>
        \A pl \in PlaylistIds, s \in SongIds, fk \in BOOLEAN :
            (AddSongToPlaylist(pl, s, fk) /\ \E r \in Rows : OwnRow(r, pl, s))
                => UNCHANGED playlist_songs

(* C1: in every state reached by whole requests a playlist holds at most   *)
(* one membership row per song, and add_song_to_playlist of a pair that is *)
(* already present inserts no row and changes no position.                 *)
C1_AtMostOneMembership ==
    []NoDuplicateMembership /\ [][AddExistingPairIsNoOp]_vars

C1_Witness ==
    /\ resp = [route |-> "add_song_to_playlist", status |-> "302:back"]
    /\ session.role = "USER"
    /\ \E r \in Rows :
           /\ r.playlist_id \in DOMAIN playlists
           /\ playlists[r.playlist_id].user_id = session.user_id
           /\ \E q \in Rows : q.playlist_id = r.playlist_id /\ q.song_id # r.song_id

PlayCountStep ==
    resp'.route = "increment_play" =>
        \A s \in SongIds :
            (IncrementPlay(s) /\ s \in DOMAIN songs) =>
                /\ DOMAIN songs' = DOMAIN songs
                /\ songs'[s].play_count = songs[s].play_count +
                       (IF session.user_id # 0 /\ session.role = "USER" THEN 1 ELSE 0)
                /\ \A t \in DOMAIN songs \ {s} : songs'[t] = songs[t]

(* C2: each increment_play call on an existing song under a logged-in USER *)
(* session adds exactly 1 to that song's play_count; under any other       *)
(* session it adds nothing; no call changes another song's play_count.     *)
C2_PlayCountPerCall == [][PlayCountStep]_vars

C2_Witness ==
    /\ resp = [route |-> "increment_play", status |-> "204"]
    /\ session.role = "USER"
    /\ \E s, t \in DOMAIN songs :
           s # t /\ songs[s].play_count = 2 /\ songs[t].play_count = 0

DeleteSongStep ==
    resp'.route = "delete_song" =>
        \A s \in SongIds :
            ( /\ DeleteSong(s)
              /\ session.role = "CREATOR"
              /\ s \in DOMAIN songs
              /\ songs[s].creator_id = session.user_id ) =>
                /\ s \notin DOMAIN songs'
                /\ \A r \in BagToSet(playlist_songs') : r.song_id # s
                /\ \A r \in Rows : r.song_id # s => SameCopies(r)

(* C3: a delete_song by the song's creator removes the song and every      *)
(* membership row of it in every playlist, and no other membership row.    *)
C3_DeleteSongCascades == [][DeleteSongStep]_vars

C3_Witness ==
    /\ resp = [route |-> "delete_song", status |-> "302:/dashboard/creator"]
    /\ Cardinality(DOMAIN playlists) = 2
    /\ \E r \in Rows : r.song_id \in DOMAIN songs

SessionRoleHeld ==
    session.user_id # 0 =>
        /\ session.user_id \in 1..Len(users)
        /\ session.role \in users[session.user_id].roles
        /\ session.username = users[session.user_id].username

LoginUnheldRoleFails ==
    resp'.route = "login" =>
        \A e \in FormEmails, p \in LoginPasswords, r \in Roles :
            ( /\ Login("POST", e, p, r)
              /\ \E i \in 1..Len(users) : users[i].email = e /\ r \notin users[i].roles ) =>
                /\ UNCHANGED session
                /\ resp'.status \in {"302:/login?role:Unauthorized role selected",
                                     "302:/login?role:Invalid email or password"}

(* C4: a login naming a role the user does not hold writes nothing into    *)
(* the session, whatever the password; so a logged-in session's active     *)
(* role is always one of its user's roles.                                 *)
C4_LoginRoleHeld == []SessionRoleHeld /\ [][LoginUnheldRoleFails]_vars

C4_Witness ==
    /\ resp = [route |-> "login", status |-> "302:/login?role:Unauthorized role selected"]
    /\ session.user_id # 0
    /\ Len(users) > 1

Listed(order, song_id) == \E i \in 1..Len(order) : order[i].song_id = song_id

LastListed(order, song_id) ==
    order[CHOOSE i \in 1..Len(order) :
              /\ order[i].song_id = song_id
              /\ \A j \in (i + 1)..Len(order) : order[j].song_id # song_id].position

OwnsPlaylist(pl) ==
    /\ session.role = "USER"
    /\ pl \in DOMAIN playlists
    /\ playlists[pl].user_id = session.user_id

(* What a reorder leaves alone in the table it commits: the rows it does  *)
(* not list, the rows of other playlists, and which (playlist, song) pairs *)
(* have a row.                                                             *)
ReorderFrame(after, pl, order) ==
    /\ { <<r.playlist_id, r.song_id>> : r \in BagToSet(after) }
           = { <<r.playlist_id, r.song_id>> : r \in Rows }
    /\ BagCardinality(after) = BagCardinality(playlist_songs)
    /\ \A r \in Rows :
           (r.playlist_id # pl \/ ~Listed(order, r.song_id)) =>
               (r \in BagToSet(after) /\ after[r] = playlist_songs[r])

(* C5 as stated, where every row references an existing song: the owner's *)
(* reorder sets every listed membership of the playlist to the position of *)
(* every entry that lists it, and leaves the unlisted rows, other          *)
(* playlists and the set of rows alone.                                    *)
C5_ReorderEveryListedPosition ==
    \A pl \in PlaylistIds :
        (OwnsPlaylist(pl) /\ \A r \in Rows : r.song_id \in DOMAIN songs) =>
            \A o \in Orders(SongIds) : \A after \in ReorderTables(pl, o) :
                /\ ReorderFrame(after, pl, o)
                /\ \A i \in 1..Len(o) : \A r \in Rows :
                       OwnRow(r, pl, o[i].song_id) =>
                           [r EXCEPT !.position = o[i].position] \in BagToSet(after)

(* C5 amended: the owner's reorder sets every listed membership of the     *)
(* playlist to the position of the last entry that lists its song, and     *)
(* leaves the unlisted rows, other playlists and the set of rows alone.    *)
C5_ReorderLastListedPosition ==
    \A pl \in PlaylistIds :
        OwnsPlaylist(pl) =>
            \A o \in Orders(SongIds) : \A after \in ReorderTables(pl, o) :
                /\ ReorderFrame(after, pl, o)
                /\ \A r \in Rows :
                       (r.playlist_id = pl /\ Listed(o, r.song_id)) =>
                           [r EXCEPT !.position = LastListed(o, r.song_id)]
                               \in BagToSet(after)

C5_Witness ==
    /\ resp = [route |-> "reorder_playlist", status |-> "204"]
    /\ \E r, q, x \in Rows :
           /\ r.playlist_id = q.playlist_id /\ r.song_id # q.song_id
           /\ r.position = 0 /\ q.position = 1
           /\ x.playlist_id # r.playlist_id

AddStep ==
    resp'.route = "add_song_to_playlist" =>
        \A pl \in PlaylistIds :
            OwnsPlaylist(pl) =>
                \A s \in SongIds, fk \in BOOLEAN :
                    (AddSongToPlaylist(pl, s, fk) /\ ~\E r \in Rows : OwnRow(r, pl, s)) =>
                        LET taken == { r.position : r \in { x \in Rows : x.playlist_id = pl } }
                            pos == IF taken = {} THEN 1 ELSE SetMax(taken) + 1
                        IN  \/ playlist_songs' =
                                   playlist_songs (+) SetToBag({Membership(pl, s, pos)})
                            \/ /\ s \notin DOMAIN songs
                               /\ resp'.status = "500"
                               /\ UNCHANGED playlist_songs

RemoveStep ==
    resp'.route = "remove_from_playlist" =>
        \A pl \in PlaylistIds :
            OwnsPlaylist(pl) =>
                \A s \in SongIds :
                    RemoveFromPlaylist(pl, s) =>
                        /\ BagToSet(playlist_songs') \subseteq Rows
                        /\ \A r \in Rows :
                               IF OwnRow(r, pl, s)
                               THEN r \notin BagToSet(playlist_songs')
                               ELSE SameCopies(r)

(* C6: the owner's add of a pair that is not present inserts one row at    *)
(* the playlist's maximum position plus 1 (1 for a playlist without rows)  *)
(* and changes no other row (a song id that names no song may instead be   *)
(* refused by the database); remove_from_playlist deletes the pair's row   *)
(* and renumbers nothing.                                                  *)
C6_AppendAtMaxPlusOne == [][AddStep /\ RemoveStep]_vars

C6_Witness ==
    /\ resp = [route |-> "remove_from_playlist", status |-> "302:back"]
    /\ \E pl \in DOMAIN playlists :
           { r \in Rows : r.playlist_id = pl } = { Membership(pl, 2, 2) }

CreatorRoutes == {"creator_dashboard", "creator_upload", "edit_song", "delete_song"}

ListenerRoutes ==
    {"user_dashboard", "create_playlist", "add_song_to_playlist", "rename_playlist",
     "delete_playlist", "remove_from_playlist", "reorder_playlist"}

(* The step is a role-gated handler run under a session without the role. *)
RoleDenied ==
    \/ resp'.route \in CreatorRoutes /\ session.role # "CREATOR"
    \/ resp'.route \in ListenerRoutes /\ session.role # "USER"

(* C7 as stated: every role-gated route answers a session without the      *)
(* required role, an anonymous one included, with a redirect to /login and *)
(* changes no persisted state.                                             *)
C7_WrongRoleRedirects ==
    [][RoleDenied => (resp'.status = "302:/login" /\ UNCHANGED db)]_vars

(* C7 amended: a session without the required role changes no persisted    *)
(* state on any role-gated route and is answered with a redirect to        *)
(* /login, except by reorder_playlist, which answers 403 with an empty     *)
(* body.                                                                   *)
C7_WrongRoleRefused ==
    [][RoleDenied =>
          /\ UNCHANGED db
          /\ resp'.status = IF resp'.route = "reorder_playlist"
                            THEN "403:" ELSE "302:/login"]_vars

C7_Witness ==
    /\ resp = [route |-> "reorder_playlist", status |-> "403:"]
    /\ session.role = "CREATOR"
    /\ DOMAIN playlists # {}

Forbidden == resp'.status \in {"403:Unauthorized", "403:"} /\ UNCHANGED db

ForeignSong(s) ==
    /\ session.role = "CREATOR"
    /\ s \in DOMAIN songs
    /\ songs[s].creator_id # session.user_id

ForeignPlaylist(pl) ==
    /\ session.role = "USER"
    /\ pl \in DOMAIN playlists
    /\ playlists[pl].user_id # session.user_id

(* The handlers whose ownership test comes before they read anything else. *)
OwnershipFirst ==
    /\ \A s \in CoreSongIds :
           ForeignSong(s) =>
               /\ \A t \in Titles : EditSong(s, t) => Forbidden
               /\ DeleteSong(s) => Forbidden
    /\ \A pl \in CorePlaylistIds :
           ForeignPlaylist(pl) =>
               /\ \A n \in PlaylistNames : RenamePlaylist(pl, n) => Forbidden
               /\ DeletePlaylist(pl) => Forbidden
               /\ \A o \in Orders(CoreSongIds) : ReorderPlaylist(pl, o) => Forbidden

(* add and remove, for the song ids in S. *)
OwnershipOfAddRemove(S) ==
    \A pl \in CorePlaylistIds :
        ForeignPlaylist(pl) =>
            \A s \in S :
                /\ \A fk \in BOOLEAN : AddSongToPlaylist(pl, s, fk) => Forbidden
                /\ RemoveFromPlaylist(pl, s) => Forbidden

C9_StaleMaxGivesEqualPositions ==
    \A p, q \in Procs :
        ( /\ p # q
          /\ inflight[p].pc = "committed" /\ inflight[q].pc = "committed"
          /\ inflight[p].playlist_id = inflight[q].playlist_id
          /\ inflight[p].song_id # inflight[q].song_id
          /\ inflight[p].last_position = inflight[q].last_position ) =>
            \A r, x \in Rows :
                ( /\ OwnRow(r, inflight[p].playlist_id, inflight[p].song_id)
                  /\ OwnRow(x, inflight[q].playlist_id, inflight[q].song_id) ) =>
                    r.position = x.position

C9_Witness ==
    /\ \A p \in Procs : inflight[p].pc = "committed" /\ inflight[p].song_id \in DOMAIN songs
    /\ \E r, x \in Rows :
           /\ r.song_id # x.song_id
           /\ r.playlist_id = x.playlist_id
           /\ r.position = x.position

(* C10: every membership row references a playlist that exists and a song  *)
(* that exists.                                                            *)
C10_ReferentialIntegrity ==
    \A r \in Rows : r.playlist_id \in DOMAIN playlists /\ r.song_id \in DOMAIN songs

====
